---- MODULE Spec2Model ----
(***************************************************************************)
(* Daily TEATER usage report (teater_impact_of_students.py).               *)
(*                                                                         *)
(* One run of teater_generation(): six category extractors query the       *)
(* database, generate_reports() merges the six category tables into the    *)
(* detail table (combined_df) and the summary table (result_df),           *)
(* excel_to_pivot() renders them and sends one email.                      *)
(*                                                                         *)
(* A table is a sequence of rows, a row is a function from column names    *)
(* to cell values.  The database is outside the program: what a query      *)
(* returns is chosen here from bounded sets that respect the SQL shape     *)
(* (one row per college, college_id unique, ids inside the IN (...) list,  *)
(* counts >= 0).                                                           *)
(***************************************************************************)
EXTENDS Integers, Sequences, FiniteSets, TLC

VARIABLES pc, registry, dfs, combined_df, result_df, queries, failed, sent, result, log, earlier

vars == <<pc, registry, dfs, combined_df, result_df, queries, failed, sent, result, log, earlier>>

(***************************************************************************)
(* Bounds of the model.                                                    *)
(***************************************************************************)
\* database facts one run can meet beyond the bare registry: an activity
\* row counted by some query, a college row missing from a category table,
\* a college row carrying a changed name
MaxFacts == 2

\* the colleges of the WHERE c.id IN (9,21,27,...) list every query
\* carries; the model follows the first two of its 23 ids
AllowList == {9, 21}

\* college.college_name of the allow-list colleges, and the name after a rename
Names == (9 :> "College 9") @@ (21 :> "College 21")
Renamed == (9 :> "College 9 (renamed)") @@ (21 :> "College 21 (renamed)")

\* missing value produced by an unmatched left merge (pandas NaN)
NaN == -1

(***************************************************************************)
(* The six categories in the order generate_reports() fetches them, and    *)
(* the metric columns of each category table (one SQL query per column).   *)
(***************************************************************************)
Categories == <<"teach", "engage", "assess", "track", "analyse", "remediate">>

CategorySet == {Categories[i] : i \in 1..Len(Categories)}

Columns(cat) ==
  CASE cat = "teach" -> <<"attendance_count", "hook_search_count", "teach_studio_count">>
    [] cat = "engage" -> <<"live_assignment_count", "survey_count", "notify_count",
                           "live_class_count_x", "live_class_count_y",
                           "projects_count", "arena_count">>
    [] cat = "assess" -> <<"objective_count", "subjective_count", "coding_count",
                           "assignment_count">>
    [] cat = "track" -> <<"regular_feedback_count", "semester_feedback_count",
                          "unit_feedback_count">>
    [] cat = "analyse" -> <<"total_analyse">>
    [] cat = "remediate" -> <<"remediate_count">>

ColumnSet(cat) == {Columns(cat)[i] : i \in 1..Len(Columns(cat))}

\* the columns a query computes with COUNT(...); total_analyse is the
\* literal 0 of "0 AS total_analyse"
CountColumns(cat) == IF cat = "analyse" THEN {} ELSE ColumnSet(cat)

\* number of execute_query calls one extractor makes
QueryCount(cat) == Len(Columns(cat))

(***************************************************************************)
(* Helpers on sequences and sets.                                          *)
(***************************************************************************)
Range(s) == {s[i] : i \in 1..Len(s)}

RECURSIVE SumSeq(_)
SumSeq(s) == IF s = <<>> THEN 0 ELSE Head(s) + SumSeq(Tail(s))

RECURSIVE SumOver(_, _)
\* sum of f[x] over the finite set S
SumOver(f, S) ==
  IF S = {} THEN 0
  ELSE LET x == CHOOSE y \in S : TRUE IN f[x] + SumOver(f, S \ {x})

RECURSIVE Ascending(_)
\* the elements of a finite set of integers, smallest first
Ascending(S) ==
  IF S = {} THEN <<>>
  ELSE LET m == CHOOSE y \in S : \A z \in S : y <= z IN <<m>> \o Ascending(S \ {m})

\* the table given row by row, as a sequence value
AsSeq(rows) == rows \o <<>>

Ids(df) == {df[i].college_id : i \in 1..Len(df)}

\* the row of college u in a table whose college_id values are unique
RowOf(df, u) == df[CHOOSE i \in 1..Len(df) : df[i].college_id = u]

(***************************************************************************)
(* What one extractor can return.  Every category's first query is         *)
(*   SELECT c.id AS college_id, c.college_name, COUNT(...) FROM college c  *)
(*   LEFT JOIN ... WHERE c.id IN (...) GROUP BY c.id                       *)
(* so the table has one row per college found, in id order, and the later  *)
(* queries of the category only add columns (left merge, then fillna(0)).  *)
(***************************************************************************)
RECURSIVE Placements(_, _)
\* the ways to spread at most k counted activity rows over the cells
Placements(cells, k) ==
  IF k = 0 THEN {[c \in cells |-> 0]}
  ELSE LET prev == Placements(cells, k - 1)
       IN prev \cup {[f EXCEPT ![c] = @ + 1] : f \in prev, c \in cells}

\* per college of the registry: its row is returned as registered, is
\* missing from this result, or carries a changed college_name
RowStates(reg, k) ==
  {d \in [reg -> {"ok", "missing", "renamed"}] :
     Cardinality({u \in reg : d[u] # "ok"}) <= k}

CategoryTable(cat, d, f) ==
  LET present == Ascending({u \in DOMAIN d : d[u] # "missing"})
  IN [i \in 1..Len(present) |->
        LET u == present[i]
        IN [college_id |-> u,
            college_name |-> IF d[u] = "renamed" THEN Renamed[u] ELSE Names[u]]
           @@ [c \in ColumnSet(cat) |-> IF c \in CountColumns(cat) THEN f[<<u, c>>] ELSE 0]]

CategoryTables(cat, reg, k) ==
  UNION {{CategoryTable(cat, d, f) :
            f \in Placements({u \in reg : d[u] # "missing"} \X CountColumns(cat),
                             k - Cardinality({u \in reg : d[u] # "ok"}))} :
         d \in RowStates(reg, k)}

\* sum of the metric cells of a category table as the extractor returned it
TableSum(cat, df) ==
  SumSeq([i \in 1..Len(df) |-> SumOver(df[i], ColumnSet(cat))])

\* rows of a returned category table that differ from the registry
TableDrift(reg, df) ==
  Cardinality(reg \ Ids(df))
  + Cardinality({i \in 1..Len(df) : df[i].college_name # Names[df[i].college_id]})

CatIndex(cat) == CHOOSE i \in 1..Len(Categories) : Categories[i] = cat

\* categories fetched before the extractor of cat is called
Fetched(cat) == {Categories[i] : i \in 1..(CatIndex(cat) - 1)}

\* what is left of MaxFacts once the tables fetched so far are accounted for
FactsLeft(cat) ==
  MaxFacts - SumOver([c \in CategorySet |-> TableSum(c, dfs[c]) + TableDrift(registry, dfs[c])],
                     Fetched(cat))

\* faulty variant: every other extractor is left out
NextStage_skipping(cat) ==
  IF CatIndex(cat) + 2 <= Len(Categories) THEN Categories[CatIndex(cat) + 2] ELSE "merge"

\* lines 560-568: the extractors are called one after the other in the
\* order of Categories, then the tables are merged
NextStage(cat) ==
  IF CatIndex(cat) < Len(Categories) THEN Categories[CatIndex(cat) + 1] ELSE "merge"

\* faulty variant: the except clause prints and does not re-raise
execute_query_swallow(ok) == "returned"

(***************************************************************************)
(* execute_query: pd.read_sql either returns a DataFrame or raises; the    *)
(* except clause prints and re-raises.                                     *)
(***************************************************************************)
execute_query(ok) == IF ok THEN "returned" ELSE "raised"

\* no category table held: before the extractors ran, and again once
\* teater_generation() has returned and its local tables are gone
NoTables == [c \in CategorySet |-> <<>>]

(***************************************************************************)
(* State after construction: no query made, no table built.  The college   *)
(* table holds some of the colleges of the allow-list.                     *)
(***************************************************************************)
Init ==
  /\ pc = "teach"
  /\ registry \in SUBSET AllowList
  /\ dfs = NoTables
  /\ combined_df = <<>>
  /\ result_df = <<>>
  /\ queries = 0
  /\ failed = "none"
  /\ sent = 0
  /\ result = "running"
  /\ log = <<>>
  /\ earlier = <<>>

(***************************************************************************)
(* get_<category>_data(), called from generate_reports() lines 560-565.    *)
(* Either all queries of the category return and the merged, zero-filled   *)
(* table is handed back, or the bad-th query raises: the exception leaves  *)
(* the extractor, generate_reports() and reaches the except clause of      *)
(* teater_generation(), which returns the statusCode 500 result.           *)
(***************************************************************************)
ExtractOk(cat) ==
  /\ pc = cat
  /\ execute_query(TRUE) = "returned"
  /\ \E T \in CategoryTables(cat, registry, FactsLeft(cat)) :
       dfs' = [dfs EXCEPT ![cat] = T]
  /\ queries' = queries + QueryCount(cat)
  /\ log' = Append(log, cat)
  /\ pc' = NextStage(cat)
  /\ UNCHANGED <<registry, combined_df, result_df, failed, sent, result, earlier>>

ExtractFails(cat) ==
  /\ pc = cat
  /\ \E bad \in 1..QueryCount(cat) :
       /\ queries' = queries + bad
       /\ failed' = cat
       /\ log' = Append(log, cat)
       /\ IF execute_query(FALSE) = "raised"
          THEN /\ pc' = "return"
               /\ result' = "statusCode 500"
               /\ dfs' = NoTables
          ELSE \* not reached: execute_query re-raises
               /\ pc' = NextStage(cat)
               /\ result' = result
               /\ dfs' = [dfs EXCEPT ![cat] = <<>>]
  /\ UNCHANGED <<registry, combined_df, result_df, sent, earlier>>

(***************************************************************************)
(* pandas operations used by generate_reports().                           *)
(***************************************************************************)
RECURSIVE KeepRows(_, _)
\* the rows of df whose index is in keep, in order
KeepRows(df, keep) ==
  IF df = <<>> THEN <<>>
  ELSE LET rest == KeepRows(SubSeq(df, 1, Len(df) - 1), keep)
       IN IF Len(df) \in keep THEN Append(rest, df[Len(df)]) ELSE rest

Matches(row, right, on) == {j \in 1..Len(right) : \A k \in on : right[j][k] = row[k]}

\* faulty variant: how="inner", left rows without a match are dropped
merge_inner(left, right, on, cols) ==
  LET kept == KeepRows(left, {i \in 1..Len(left) : Matches(left[i], right, on) # {}})
  IN AsSeq([i \in 1..Len(kept) |->
        LET j == CHOOSE j \in Matches(kept[i], right, on) : TRUE
        IN kept[i] @@ [c \in cols |-> right[j][c]]])

\* how="outer": right rows without a match are appended, with NaN in the
\* columns only the left table has
merge_outer(left, right, on, cols) ==
  LET matched == AsSeq([i \in 1..Len(left) |->
                    IF Matches(left[i], right, on) = {}
                    THEN left[i] @@ [c \in cols |-> NaN]
                    ELSE LET j == CHOOSE j \in Matches(left[i], right, on) : TRUE
                         IN left[i] @@ [c \in cols |-> right[j][c]]])
      extra == KeepRows(right, {j \in 1..Len(right) :
                                  \A i \in 1..Len(left) : \E k \in on : right[j][k] # left[i][k]})
      leftcols == IF left = <<>> THEN {} ELSE DOMAIN left[1]
  IN matched \o [j \in 1..Len(extra) |->
                   [c \in on \cup cols |-> extra[j][c]]
                   @@ [c \in leftcols |-> NaN]]

\* pd.merge(left, right, on=on, how="left"), right holding the on-columns
\* and the columns cols: every left row is kept, in order; it takes the
\* cols cells of the right row with equal on-cells, NaN when there is none.
\* (The on-cells of right are unique: college_id comes from GROUP BY c.id.)
merge(left, right, on, cols) ==
  AsSeq([i \in 1..Len(left) |->
     LET row == left[i]
         m == Matches(row, right, on)
     IN IF m = {}
        THEN row @@ [c \in cols |-> NaN]
        ELSE LET j == CHOOSE j \in m : TRUE
             IN row @@ [c \in cols |-> right[j][c]]])

\* faulty variant: the zero fill is left out
fillna_skipped(df, cols) == df

\* df.fillna(0) on the columns cols (the only ones that can hold NaN)
fillna(df, cols) ==
  AsSeq([i \in 1..Len(df) |->
     LET row == df[i]
     IN [c \in DOMAIN row |->
           IF c \in cols /\ row[c] = NaN THEN 0 ELSE row[c]] @@ row])

\* faulty variant: college_id is not dropped before the numeric columns
\* are selected
numeric_cols_with_id(row) == DOMAIN row \ {"college_name"}

\* select_dtypes(include="number") without college_id: every column of the
\* row except the key and the (string) college_name
numeric_cols(row) == DOMAIN row \ {"college_id", "college_name"}

\* DataFrame.sum(axis=1) over the columns cols of one row, NaN skipped
row_sum(row, cols) == SumOver([c \in cols |-> IF row[c] = NaN THEN 0 ELSE row[c]], cols)

\* faulty variant: the last row is left out of the column sum
col_sum_short(df, col) == SumSeq([i \in 1..(Len(df) - 1) |-> df[i][col]])

\* Series.sum() of column col
col_sum(df, col) == SumSeq([i \in 1..Len(df) |-> df[i][col]])

\* faulty variant: range(len(df)), numbering from 0
insert_sno_from_zero(df) == [i \in 1..Len(df) |-> ("S.No" :> (i - 1)) @@ df[i]]

\* df.insert(0, "S.No", range(1, len(df) + 1))
insert_sno(df) == AsSeq([i \in 1..Len(df) |-> ("S.No" :> i) @@ df[i]])

\* astype(int): the cells are whole numbers (sums of COUNT values and
\* zero fills), on which the truncation changes nothing
astype_int(v) == v

Perms(n) == {p \in [1..n -> 1..n] : \A i, j \in 1..n : i # j => p[i] # p[j]}

\* df.sort_values(by=col, ascending=False).reset_index(drop=True) with the
\* default kind="quicksort", which pandas documents as not stable: the
\* result is non-increasing in col, the order of equal rows is whatever the
\* numpy build produces.  The set of possible results.
sort_values(df, col) ==
  {AsSeq([i \in 1..Len(df) |-> df[p[i]]]) :
     p \in {q \in Perms(Len(df)) :
              \A i, j \in 1..Len(df) : i < j => df[q[i]][col] >= df[q[j]][col]}}

AllColumns == UNION {ColumnSet(c) : c \in CategorySet}

(***************************************************************************)
(* generate_reports() lines 575-587: the detail table.                     *)
(***************************************************************************)
\* the columns of the table of category cat besides the two keys: the
\* metric columns its queries name, and whatever column was added to the
\* table since (a table without rows shows only the former here)
value_cols(df, cat) ==
  IF df = <<>> THEN ColumnSet(cat)
  ELSE DOMAIN df[1] \ {"college_id", "college_name"}

RECURSIVE reduce_merge(_, _, _)
\* reduce(lambda left, right: pd.merge(left, right,
\*        on=["college_id", "college_name"], how="left"), dfs), from the
\* i-th table on with acc the accumulator; every column of the right table
\* is carried
reduce_merge(acc, d, i) ==
  IF i > Len(Categories) THEN acc
  ELSE reduce_merge(merge(acc, d[Categories[i]], {"college_id", "college_name"},
                          value_cols(d[Categories[i]], Categories[i])),
                    d, i + 1)

RECURSIVE reduce_merge_outer(_, _, _)
reduce_merge_outer(acc, d, i) ==
  IF i > Len(Categories) THEN acc
  ELSE reduce_merge_outer(merge_outer(acc, d[Categories[i]], {"college_id", "college_name"},
                                      ColumnSet(Categories[i])),
                          d, i + 1)

\* faulty variant: the six tables are merged with how="outer"
Detail_outer(d) ==
  LET joined == reduce_merge_outer(d[Categories[1]], d, 2)
      merged == fillna(AsSeq([i \in 1..Len(joined) |-> joined[i] @@ [c \in AllColumns |-> NaN]]),
                       AllColumns)
      usage == AsSeq([i \in 1..Len(merged) |->
                  merged[i] @@ ("college_usage" :> row_sum(merged[i], numeric_cols(merged[i])))])
  IN insert_sno(usage)

Detail(d) ==
  LET merged == fillna(reduce_merge(d[Categories[1]], d, 2), AllColumns \cup CategorySet)
      usage == AsSeq([i \in 1..Len(merged) |->
                  LET row == merged[i]
                  IN row @@ ("college_usage" :> row_sum(row, numeric_cols(row)))])
  IN insert_sno(usage)

(***************************************************************************)
(* generate_reports() lines 599-625: the summary table.                    *)
(***************************************************************************)
\* faulty variant: college_id is not taken out of the numeric columns
add_total_with_id(df, name) ==
  [i \in 1..Len(df) |->
     df[i] @@ (name :> row_sum(df[i], DOMAIN df[i] \ {"college_name"}))]

\* line 603: df[name] = df[numeric_cols].sum(axis=1), in place (a column
\* of that name already there is overwritten)
add_total(df, name) ==
  AsSeq([i \in 1..Len(df) |->
     LET row == df[i] IN (name :> row_sum(row, numeric_cols(row))) @@ row])

\* the six category tables after the loop of lines 601-604
WithTotals(d) == [c \in CategorySet |-> add_total(d[c], c)]

RECURSIVE merge_totals(_, _, _)
\* line 604, for the i-th category on
merge_totals(acc, d, i) ==
  IF i > Len(Categories) THEN acc
  ELSE merge_totals(merge(acc, d[Categories[i]], {"college_id"}, {Categories[i]}),
                    d, i + 1)

\* lines 599-607: roster of the Teach table, six category totals, total
Unsorted(d) ==
  LET roster == AsSeq([i \in 1..Len(d["teach"]) |->
                   [college_id |-> d["teach"][i].college_id,
                    college_name |-> d["teach"][i].college_name]])
      filled == fillna(merge_totals(roster, WithTotals(d), 1), CategorySet)
  IN AsSeq([i \in 1..Len(filled) |->
        LET row == filled[i] IN row @@ ("total" :> row_sum(row, CategorySet))])

NumericColumns == CategorySet \cup {"total"}

\* faulty variant: the Total row takes part in the descending sort, so it
\* comes first whenever its total exceeds the first real row's
Finish_total_sorted(sorted) ==
  LET numbered == insert_sno(sorted)
      total_row == [c \in NumericColumns |-> col_sum(numbered, c)]
                   @@ [college_id |-> "-", college_name |-> "Overall Total"]
                   @@ ("S.No" :> "Total")
  IN IF numbered # <<>> /\ total_row.total > numbered[1].total
     THEN <<total_row>> \o numbered
     ELSE Append(numbered, total_row)

\* lines 609-625 on the sorted rows: S.No, astype(int), Total row appended
Finish(sorted) ==
  LET numbered == insert_sno(sorted)
      ints == AsSeq([i \in 1..Len(numbered) |->
                 LET row == numbered[i]
                 IN [c \in DOMAIN row |->
                       IF c \in NumericColumns THEN astype_int(row[c]) ELSE row[c]] @@ row])
      total_row == [c \in NumericColumns |-> col_sum(ints, c)]
                   @@ [college_id |-> "-", college_name |-> "Overall Total"]
                   @@ ("S.No" :> "Total")
  IN Append(ints, total_row)

\* the summary tables generate_reports() can return for the tables d
Summaries(d) == {Finish(s) : s \in sort_values(Unsorted(d), "total")}

(***************************************************************************)
(* generate_reports() lines 568-628, after the six extractors returned.    *)
(* Nothing in these lines catches an exception: one raised here leaves     *)
(* generate_reports() and ends the run in the except clause of             *)
(* teater_generation().                                                    *)
(***************************************************************************)
\* faulty variant: the loop that adds the category total columns runs
\* before the detail table is merged
BuildReports_totals_first ==
  /\ pc = "merge"
  /\ combined_df' = Detail(WithTotals(dfs))
  /\ \E s \in Summaries(dfs) : result_df' = s
  /\ dfs' = WithTotals(dfs)
  /\ log' = Append(log, "merge")
  /\ pc' = "excel_to_pivot"
  /\ UNCHANGED <<registry, queries, failed, sent, result, earlier>>

BuildReports ==
  /\ pc = "merge"
  /\ combined_df' = Detail(dfs)
  /\ \E s \in Summaries(dfs) : result_df' = s
  /\ dfs' = WithTotals(dfs)
  /\ log' = Append(log, "merge")
  /\ pc' = "excel_to_pivot"
  /\ UNCHANGED <<registry, queries, failed, sent, result, earlier>>

BuildFails ==
  /\ pc = "merge"
  /\ failed' = "merge"
  /\ log' = Append(log, "merge")
  /\ pc' = "return"
  /\ result' = "statusCode 500"
  /\ dfs' = NoTables
  /\ UNCHANGED <<registry, combined_df, result_df, queries, sent, earlier>>

(***************************************************************************)
(* excel_to_pivot() lines 634-795, then the end of teater_generation().    *)
(* Writing the workbook and building the HTML body is not guarded: an      *)
(* exception there reaches the except clause of teater_generation().  The  *)
(* SMTP login and send are inside try/except Exception, which prints       *)
(* "Email send failed" and lets excel_to_pivot() return normally, so       *)
(* teater_generation() prints "Process completed successfully!" and falls  *)
(* off its end (returns None).                                             *)
(***************************************************************************)
\* the tables are locals: they are gone once teater_generation() returns
Discard ==
  /\ dfs' = NoTables
  /\ combined_df' = <<>>
  /\ result_df' = <<>>

RenderFails ==
  /\ pc = "excel_to_pivot"
  /\ failed' = "render"
  /\ log' = Append(log, "render")
  /\ pc' = "return"
  /\ result' = "statusCode 500"
  /\ Discard
  /\ UNCHANGED <<registry, queries, sent, earlier>>

SendOk ==
  /\ pc = "excel_to_pivot"
  /\ sent' = sent + 1
  /\ log' = log \o <<"render", "send">>
  /\ pc' = "return"
  /\ result' = "None"
  /\ Discard
  /\ UNCHANGED <<registry, queries, failed, earlier>>

SendFails ==
  /\ pc = "excel_to_pivot"
  /\ sent' = sent + 1
  /\ failed' = "send"
  /\ log' = log \o <<"render", "send">>
  /\ pc' = "return"
  /\ result' = "None"
  /\ Discard
  /\ UNCHANGED <<registry, queries, earlier>>

Next ==
  \/ \E cat \in CategorySet : ExtractOk(cat)
  \/ \E cat \in CategorySet : ExtractFails(cat)
  \/ BuildReports
  \/ BuildFails
  \/ RenderFails
  \/ SendOk
  \/ SendFails

Spec == Init /\ [][Next]_vars

(***************************************************************************)
(* generate_reports() called a second time in the same process, the        *)
(* database answering every query as it did the first time.  What the      *)
(* first call returned is kept in earlier for the comparison.              *)
(***************************************************************************)
\* the column col of a table, top to bottom
Keys(df, col) == [i \in 1..Len(df) |-> df[i][col]]

\* the row orders a descending sort of the key column can produce: the
\* sort reads nothing but the keys, so one build maps equal key columns to
\* the same order; which order it is among equal keys is not specified
argsort(keys) ==
  {q \in Perms(Len(keys)) : \A i, j \in 1..Len(keys) : i < j => keys[q[i]] >= keys[q[j]]}

\* the rows of df in the order p
take(df, p) == AsSeq([i \in 1..Len(df) |-> df[p[i]]])

\* faulty variant: the second call works on the table objects the first
\* call changed in place
refetch_stale(returned, left) == left

\* lines 560-565: every call of an extractor builds new DataFrames from the
\* query results; returned are the tables as the queries gave them, left
\* the objects the previous call of generate_reports() worked on
refetch(returned, left) == returned

FirstCall ==
  /\ pc = "merge"
  /\ earlier = <<>>
  /\ combined_df' = Detail(dfs)
  /\ LET u == Unsorted(dfs)
         k == AsSeq(Keys(u, "total"))
     IN \E p \in argsort(k) :
          /\ result_df' = Finish(take(u, p))
          /\ earlier' = <<[tables |-> dfs, keys |-> k, order |-> p,
                           combined_df |-> combined_df', result_df |-> result_df']>>
  /\ dfs' = WithTotals(dfs)
  /\ log' = Append(log, "merge")
  /\ pc' = "again"
  /\ UNCHANGED <<registry, queries, failed, sent, result>>

SecondCall ==
  /\ pc = "again"
  /\ LET d == refetch(earlier[1].tables, dfs)
         u == Unsorted(d)
         k == AsSeq(Keys(u, "total"))
     IN /\ combined_df' = Detail(d)
        /\ \E p \in (IF k = earlier[1].keys THEN {earlier[1].order} ELSE argsort(k)) :
             result_df' = Finish(take(u, p))
        /\ dfs' = WithTotals(d)
  /\ queries' = queries + SumSeq([i \in 1..Len(Categories) |-> QueryCount(Categories[i])])
  /\ log' = Append(log, "merge")
  /\ pc' = "twice"
  /\ UNCHANGED <<registry, failed, sent, result, earlier>>

NextTwice ==
  \/ \E cat \in CategorySet : ExtractOk(cat)
  \/ FirstCall
  \/ SecondCall

SpecTwice == Init /\ [][NextTwice]_vars

(***************************************************************************)
(* Vocabulary of the properties.                                           *)
(***************************************************************************)
\* generate_reports() has returned: combined_df and result_df are the two
\* tables it built, dfs the six category tables it built them from
Built == pc = "excel_to_pivot"

\* the synthetic row of lines 617-621.  The name is compared first: S.No
\* and college_id are numbers in every other row.
IsTotalRow(r) ==
  /\ r.college_name = "Overall Total"
  /\ r["S.No"] = "Total"
  /\ r.college_id = "-"

NotTotalRow(r) == ~IsTotalRow(r)

\* the rows of the summary table that stand for a college
RealRows == SelectSeq(result_df, NotTotalRow)

TotalRows == SelectSeq(result_df, IsTotalRow)

\* sum of the metric cells of college u in the table of category cat, 0
\* when the table has no row for u
MetricSum(cat, u) ==
  IF u \in Ids(dfs[cat]) THEN SumOver(RowOf(dfs[cat], u), ColumnSet(cat)) ELSE 0

\* sum of every metric cell of the rows of the colleges in U, all six tables
CellSum(U) ==
  SumOver([c \in CategorySet |-> SumOver([u \in U |-> MetricSum(c, u)], U)], CategorySet)

AllIds == UNION {Ids(dfs[c]) : c \in CategorySet}

Roster == Ids(dfs["teach"])

\* position of college u in the Teach table, the order before the sort
TeachPos(u) == CHOOSE i \in 1..Len(dfs["teach"]) : dfs["teach"][i].college_id = u

(***************************************************************************)
(* C1  Conservation.                                                       *)
(***************************************************************************)
\* C1 as stated: the total cell of the Total row equals the sum of every
\* metric cell over all rows of all six category tables, whatever unit
\* sets the tables cover.
C1_ConservationAllRows ==
  Built => /\ Len(TotalRows) = 1
           /\ TotalRows[1].total = CellSum(AllIds)

\* C1 amended: the total cell of the Total row equals the sum of every
\* metric cell over those rows of the six category tables whose college_id
\* has a row in the Teach table; rows of colleges absent from the Teach
\* table are not counted.
C1_ConservationRoster ==
  Built => /\ Len(TotalRows) = 1
           /\ TotalRows[1].total = CellSum(Roster)

\* the Teach table lists a college, a later table holds activity of a
\* college the Teach table lacks, and the Total row does not count it
C1_Witness ==
  /\ Built
  /\ Roster # {}
  /\ CellSum(AllIds \ Roster) > 0
  /\ Len(TotalRows) = 1
  /\ TotalRows[1].total = CellSum(AllIds) - CellSum(AllIds \ Roster)

(***************************************************************************)
(* C2  Per-unit summary total.                                             *)
(***************************************************************************)
\* C2: in every real row of the summary table each category column is the
\* sum of that college's own metric cells in that category's table (0 when
\* it has no row there) and total is the sum of the six category columns.
C2_PerUnitTotal ==
  Built =>
    \A i \in 1..Len(RealRows) :
      LET r == RealRows[i]
      IN /\ \A c \in CategorySet : r[c] = MetricSum(c, r.college_id)
         /\ r.total = SumOver(r, CategorySet)

\* the scenario's shape: the first college active in Teach and in Engage,
\* the second listed in Teach with no activity; the summary is [first,
\* second, Total] and the Total row carries the first college's sum
C2_Witness ==
  /\ Built
  /\ Roster = {9, 21}
  /\ MetricSum("teach", 9) > 0
  /\ MetricSum("engage", 9) > 0
  /\ Len(result_df) = 3
  /\ result_df[1].college_id = 9
  /\ result_df[1].total = MetricSum("teach", 9) + MetricSum("engage", 9)
  /\ result_df[2].college_id = 21
  /\ result_df[2].total = 0
  /\ IsTotalRow(result_df[3])
  /\ result_df[3].total = result_df[1].total

(***************************************************************************)
(* C3  Zero-fill totality.                                                 *)
(***************************************************************************)
\* the detail and summary cells of category c are 0 in the one row of u
ZeroFilled(u, c) ==
  /\ \E i \in 1..Len(combined_df) :
       /\ combined_df[i].college_id = u
       /\ \A m \in ColumnSet(c) : combined_df[i][m] = 0
  /\ \E i \in 1..Len(RealRows) :
       /\ RealRows[i].college_id = u
       /\ RealRows[i][c] = 0

\* C3 as stated: for every unit of the allow-list and every one of the six
\* categories, a unit without a row in that category's table has a row in
\* both output tables with that category's cells equal to 0.
C3_ZeroFillAllowList ==
  Built => \A u \in AllowList : \A c \in CategorySet :
             u \notin Ids(dfs[c]) => ZeroFilled(u, c)

\* C3 amended: the same for every unit that has a row in the Teach table
\* (the roster both output tables are built from) and each of the other
\* five categories.
C3_ZeroFillRoster ==
  Built => \A u \in Roster : \A c \in CategorySet :
             u \notin Ids(dfs[c]) => ZeroFilled(u, c)

\* a roster college is missing from a later category's table while it has
\* activity elsewhere
C3_Witness ==
  /\ Built
  /\ \E u \in Roster : \E c \in CategorySet :
       /\ u \notin Ids(dfs[c])
       /\ \E c2 \in CategorySet : MetricSum(c2, u) > 0

(***************************************************************************)
(* C4  Exactly-once rows.                                                  *)
(***************************************************************************)
\* C4: when the Teach table enumerates exactly the allow-list (keys are
\* unique in every table), each allow-list unit has exactly one detail row
\* and exactly one non-Total summary row, and both row counts equal the
\* size of the allow-list.
C4_ExactlyOnce ==
  (Built /\ Roster = AllowList) =>
    /\ \A u \in AllowList :
         /\ Cardinality({i \in 1..Len(combined_df) : combined_df[i].college_id = u}) = 1
         /\ Cardinality({i \in 1..Len(RealRows) : RealRows[i].college_id = u}) = 1
    /\ Len(combined_df) = Cardinality(AllowList)
    /\ Len(result_df) - 1 = Cardinality(AllowList)
    /\ Len(RealRows) = Cardinality(AllowList)

\* the Teach table lists the whole allow-list and a later table does not
C4_Witness ==
  /\ Built
  /\ Roster = AllowList
  /\ \E c \in CategorySet : Ids(dfs[c]) # AllowList
  /\ Len(combined_df) = Cardinality(AllowList)

(***************************************************************************)
(* C5  Detail row count.                                                   *)
(***************************************************************************)
\* C5 as stated: the detail table has one row per distinct unit of the
\* union of the six tables' unit sets.
C5_DetailRowsUnion ==
  Built => Len(combined_df) = Cardinality(AllIds)

\* C5 amended: the detail table has exactly the rows of the Teach table,
\* in its order (the merge is a left join onto the Teach table), so its row
\* count is the number of Teach rows; a unit present only in a later
\* category table gets no detail row.
C5_DetailRowsRoster ==
  Built => /\ Len(combined_df) = Len(dfs["teach"])
           /\ \A i \in 1..Len(combined_df) :
                combined_df[i].college_id = dfs["teach"][i].college_id

\* a later table holds a college the Teach table lacks
C5_Witness ==
  /\ Built
  /\ Roster # {}
  /\ AllIds \ Roster # {}
  /\ Len(combined_df) < Cardinality(AllIds)

(***************************************************************************)
(* C6  Error propagation.                                                  *)
(***************************************************************************)
\* C6: a run in which some stage failed (an extractor query, the
\* aggregation, the rendering or the email dispatch) ends in the
\* statusCode 500 result, never in the normal return.
C6_ErrorPropagation ==
  (pc = "return" /\ failed # "none") => result = "statusCode 500"

(***************************************************************************)
(* C7  No partial report.                                                  *)
(***************************************************************************)
\* number of queries made when every extractor before cat has returned
QueriesBefore(cat) == SumOver([c \in CategorySet |-> QueryCount(c)], Fetched(cat))

\* C7: once a query of a category extractor has failed the run is over: the
\* extractors called are those up to the failing one, the failing query is
\* the last query made, no detail or summary table exists, the merge and
\* the email send were never reached.
C7_NoPartialReport ==
  failed \in CategorySet =>
    /\ pc = "return"
    /\ result = "statusCode 500"
    /\ log = SubSeq(Categories, 1, CatIndex(failed))
    /\ queries > QueriesBefore(failed)
    /\ queries <= QueriesBefore(failed) + QueryCount(failed)
    /\ combined_df = <<>>
    /\ result_df = <<>>
    /\ dfs = NoTables
    /\ sent = 0

\* a query failed after earlier extractors had returned their tables
C7_Witness ==
  /\ failed = "assess"
  /\ queries = QueriesBefore("assess") + 2
  /\ pc = "return"

(***************************************************************************)
(* C8  Sort stability.                                                     *)
(***************************************************************************)
\* C8: the non-Total summary rows are non-increasing in total, and rows
\* with equal total keep the relative order they had in the Teach table.
C8_SortStability ==
  Built =>
    \A i, j \in 1..Len(RealRows) :
      i < j =>
        /\ RealRows[i].total >= RealRows[j].total
        /\ RealRows[i].total = RealRows[j].total =>
             TeachPos(RealRows[i].college_id) < TeachPos(RealRows[j].college_id)

(***************************************************************************)
(* C9  Total row placement.                                                *)
(***************************************************************************)
\* C9: the summary table holds exactly one Total row, it is the last row,
\* whatever its total is compared with the real rows' totals.
C9_TotalRowLast ==
  Built =>
    /\ Len(result_df) >= 1
    /\ IsTotalRow(result_df[Len(result_df)])
    /\ \A i \in 1..(Len(result_df) - 1) : ~IsTotalRow(result_df[i])

\* the Total row's total exceeds every real row's total and it is last
C9_Witness ==
  /\ Built
  /\ Len(result_df) = 3
  /\ IsTotalRow(result_df[3])
  /\ \A i \in 1..2 : result_df[3].total > result_df[i].total

(***************************************************************************)
(* C10  Sequence density.                                                  *)
(***************************************************************************)
\* C10: S.No is 1..N in row order in the detail table and in the non-Total
\* rows of the summary table in their final order, so the row with
\* S.No = 1 has the largest total.
C10_SequenceDensity ==
  Built =>
    /\ \A i \in 1..Len(combined_df) : combined_df[i]["S.No"] = i
    /\ \A i \in 1..Len(RealRows) :
         /\ RealRows[i]["S.No"] = i
         /\ RealRows[1].total >= RealRows[i].total

\* the sort moved the second Teach row to the top: it carries S.No 1 in the
\* summary table and S.No 2 in the detail table
C10_Witness ==
  /\ Built
  /\ Len(RealRows) = 2
  /\ RealRows[1].college_id = dfs["teach"][2].college_id
  /\ RealRows[1].total > RealRows[2].total
  /\ RealRows[1]["S.No"] = 1
  /\ combined_df[2]["S.No"] = 2
  /\ combined_df[2].college_id = RealRows[1].college_id

(***************************************************************************)
(* C11  Detail usage column.                                               *)
(***************************************************************************)
\* the cells of a detail row that are neither a key, nor the sequence
\* number, nor the usage sum itself
DetailMetricCells(row) == DOMAIN row \ {"S.No", "college_id", "college_name", "college_usage"}

\* C11: in every row of the detail table college_usage equals the sum of
\* the row's numeric metric columns; college_id and the S.No sequence
\* number are not part of the sum.
C11_DetailUsage ==
  Built =>
    \A i \in 1..Len(combined_df) :
      combined_df[i].college_usage = SumOver(combined_df[i], DetailMetricCells(combined_df[i]))

\* the second detail row carries S.No 2 and a usage of 2 made of two
\* different metric columns
C11_Witness ==
  /\ Built
  /\ Len(combined_df) = 2
  /\ combined_df[2]["S.No"] = 2
  /\ combined_df[2].college_usage = 2
  /\ \E a, b \in AllColumns : a # b /\ combined_df[2][a] = 1 /\ combined_df[2][b] = 1

C13_EmptyRosterIsError ==
  Built => dfs["teach"] # <<>>

(***************************************************************************)
(* C14  Non-negative integer cells.                                        *)
(***************************************************************************)
\* C14: with non-negative integer counts in the category tables, every
\* numeric cell of the summary table (the six category columns and total,
\* in the real rows and in the Total row) and every metric cell and
\* college_usage cell of the detail table is a non-negative integer.
C14_NonNegativeCells ==
  Built =>
    /\ \A i \in 1..Len(result_df) : \A c \in NumericColumns : result_df[i][c] \in Nat
    /\ \A i \in 1..Len(combined_df) :
         \A c \in AllColumns \cup {"college_usage"} : combined_df[i][c] \in Nat

\* a college of the Teach table has no matching row in some category table,
\* so its cells there come from the zero fill, and it has activity
\* elsewhere: positive cells in both tables, in the Total row too
C14_Witness ==
  /\ Built
  /\ \E i \in 1..Len(combined_df) :
       /\ \E c \in CategorySet : combined_df[i].college_id \notin Ids(dfs[c])
       /\ combined_df[i].college_usage > 0
  /\ Len(TotalRows) = 1
  /\ TotalRows[1].total > 0

(***************************************************************************)
(* C15  Stage ordering and single send.                                    *)
(***************************************************************************)
\* the stages of one run in program order
StageOrder == Categories \o <<"merge", "render", "send">>

\* C15: the stages a run has entered are an initial part of Teach, Engage,
\* Assess, Track, Analyse, Remediate, aggregation, rendering, dispatch, in
\* that order; the send is attempted at most once, only after all the
\* earlier stages, and a failed send ends the run without another attempt.
C15_StageOrder ==
  /\ Len(log) <= Len(StageOrder)
  /\ log = SubSeq(StageOrder, 1, Len(log))
  /\ sent <= 1
  /\ sent = 1 => log = StageOrder
  /\ failed = "send" => sent = 1 /\ pc = "return"

\* the single send was attempted after all stages and failed; the run is
\* over
C15_Witness ==
  /\ failed = "send"
  /\ sent = 1
  /\ pc = "return"
  /\ log = StageOrder
  /\ queries = SumSeq([i \in 1..Len(Categories) |-> QueryCount(Categories[i])])

(***************************************************************************)
(* C16  Detail/summary agreement.                                          *)
(***************************************************************************)
\* C16: for every college, the college_usage of its detail row equals the
\* total of its summary row, also when a category table carries another
\* college_name for the same college_id.
C16_DetailSummaryAgreement ==
  Built =>
    \A i \in 1..Len(combined_df) :
      \E j \in 1..Len(RealRows) :
        /\ RealRows[j].college_id = combined_df[i].college_id
        /\ RealRows[j].total = combined_df[i].college_usage

(***************************************************************************)
(* C17  Mutation ordering.                                                 *)
(***************************************************************************)
\* the table of category cat has a row with the keys (college_id and
\* college_name) of the detail row: the row the detail merge joined to it
Joined(cat, row) ==
  \E j \in 1..Len(dfs[cat]) :
    /\ dfs[cat][j].college_id = row.college_id
    /\ dfs[cat][j].college_name = row.college_name

\* C17: the per-category total columns are added to the category tables
\* only after the detail table is built: the detail table has no
\* category-total column and college_usage counts each metric cell of the
\* category rows joined to the detail row exactly once; each category
\* table ends with its own total column only, computed from its own
\* metric columns.
C17_MutationOrdering ==
  Built =>
    /\ \A i \in 1..Len(combined_df) :
         LET row == combined_df[i]
         IN /\ DOMAIN row \cap CategorySet = {}
            /\ row.college_usage =
                 SumOver([c \in CategorySet |->
                            IF Joined(c, row) THEN MetricSum(c, row.college_id) ELSE 0],
                         CategorySet)
    /\ \A c \in CategorySet :
         \A j \in 1..Len(dfs[c]) :
           /\ DOMAIN dfs[c][j] = {"college_id", "college_name", c} \cup ColumnSet(c)
           /\ dfs[c][j][c] = SumOver(dfs[c][j], ColumnSet(c))

\* a college with activity in two categories: both category tables carry
\* their total column after the run, the detail row counts the two cells
\* once each
C17_Witness ==
  /\ Built
  /\ \E i \in 1..Len(combined_df) :
       \E c1, c2 \in CategorySet :
         /\ c1 # c2
         /\ MetricSum(c1, combined_df[i].college_id) = 1
         /\ MetricSum(c2, combined_df[i].college_id) = 1
         /\ RowOf(dfs[c1], combined_df[i].college_id)[c1] = 1
         /\ RowOf(dfs[c2], combined_df[i].college_id)[c2] = 1
         /\ combined_df[i].college_usage = 2

====
